---- MODULE Spec2Model ----
(***************************************************************************)
(* Model of whobpyt/optimization/modelfitting.py: the Model_fitting        *)
(* session object with its train and evaluate methods.                     *)
(*                                                                         *)
(* The neural-mass model, the cost function and the torch optimizers are   *)
(* opaque collaborators.  Their results are modelled symbolically:         *)
(*   - a tensor is a token [src, id, graph]: where it came from, which     *)
(*     model call produced it, and whether it still carries autograd       *)
(*     history;                                                            *)
(*   - a parameter value is a number that counts the optimizer steps       *)
(*     applied to it (every optimizer step changes the value);             *)
(*   - a loss value is the tuple of the arguments the cost was called on.  *)
(***************************************************************************)
EXTENDS Integers, Sequences, FiniteSets, TLC

\* ------------------------------------------------------------------ bounds
MaxEpochs == 3
MaxRecordings == 2
MaxWindows == 2
MaxEpochMin == 0
MaxBaseWindows == 1
MaxParams == 2

\* ------------------------------------------------------- the opaque model
\* state_names + output_names of the model (lines 136, 169, 215, 237).
Names == {"E", "bold"}

\* Keys of model.state_dict() (line 120).
StateDictKeys == {"g", "std_in", "gains_con", "lm"}

\* model.track_params when the model declares it (lines 115-116).
TrackedNames == {"g", "std_in"}

\* model.params_fitted['hyperparameter'] (line 83).
HyperGroup(model) == {"std_in"}

\* model.params_fitted['modelparameter'] (line 82).
ModelGroup(model) ==
    {"g"} \cup (IF model.use_fit_gains THEN {"gains_con"} ELSE {})
          \cup (IF model.use_fit_lfm THEN {"lm"} ELSE {})

\* FC correlation values (scaled), and the thresholds r_lb tried: r_lb = -1
\* lies below every correlation value, r_lb = 0 is exceeded only by 1.
CorrValues == {0, 1}
RlbValues == {-1, 0}

\* u: 0 is the default int 0 (no stimulus), 1 stands for a stimulus tensor.
UValues == {0, 1}

VARIABLES
    \* ---- the Model_fitting object (lines 51-64)
    num_epoches,      \* self.num_epoches
    num_windows,      \* self.num_windows
    num_recordings,   \* len(self.trainData)
    model,            \* flags of self.model
    params,           \* current values of the model's parameters
    u,                \* self.u
    lastRec,          \* self.lastRec
    trainingStats,    \* self.trainingStats
    \* ---- arguments of the running call
    epoch_min, r_lb, lr_scheduler, base_window_num,
    \* ---- locals of the running call
    pc, i_epoch, rec_idx, win_idx,
    X, hE, external, next_window, loss, grad,
    windListDict, loss_his, fit_param, fit_sc, fit_lm, sched,
    fc_cor,           \* the FC correlation of lines 211-223 and its inputs
    \* ---- observers
    fwd_log,          \* the calls made to self.model(...) by the running call
    ops,              \* the steps taken so far in the current window
    stop_seen,        \* the early-stop condition of line 232 was true
    trained, evaluated, err,
    \* ---- method_arg_type_check (functions/arg_type_check.py)
    ac_sig,           \* the parameters of method_obj: name and annotation
    ac_passed,        \* the type of the value the call passes for each
    ac_pc, ac_idx,    \* position in the function and in its loop
    ac_err            \* the ValueError raised, if any

vars == <<num_epoches, num_windows, num_recordings, model, params, u, lastRec,
          trainingStats, epoch_min, r_lb, lr_scheduler, base_window_num,
          pc, i_epoch, rec_idx, win_idx, X, hE, external, next_window, loss,
          grad, windListDict, loss_his, fit_param, fit_sc, fit_lm, sched,
          fc_cor, fwd_log, ops, stop_seen, trained, evaluated, err,
          ac_sig, ac_passed, ac_pc, ac_idx, ac_err>>

checkVars == <<ac_sig, ac_passed, ac_pc, ac_idx, ac_err>>
selfVars == <<num_epoches, num_windows, num_recordings, model>>
argVars == <<epoch_min, r_lb, lr_scheduler, base_window_num>>
histVars == <<loss_his, fit_param, fit_sc, fit_lm>>

\* ---------------------------------------------------------------- tensors
NoTensor == [src |-> "none", id |-> 0, graph |-> FALSE]

\* model.createIC(ver) (lines 94, 264).
createIC(ver) == [src |-> "IC", id |-> ver, graph |-> FALSE]

\* model.createDelayIC(ver) (lines 96, 266).
createDelayIC(ver) == [src |-> "DelayIC", id |-> ver, graph |-> FALSE]

\* torch.tensor(t.detach().numpy(), dtype=torch.float32) (lines 208-209,
\* 302-303): the same values, cut from the autograd graph.
Detach(t) == [t EXCEPT !.graph = FALSE]

ZeroExternal == [kind |-> "zeros", at |-> 0]
USlice(w) == [kind |-> "u", at |-> w]
NoExternal == [kind |-> "none", at |-> 0]

\* self.model(external, X, hE) (lines 158, 293): call number n of the
\* running train/evaluate returns outputs attached to the autograd graph.
ModelCall(n) ==
    [id |-> n,
     current_state |-> [src |-> "current_state", id |-> n, graph |-> TRUE],
     hE_new |-> [src |-> "hE_new", id |-> n, graph |-> TRUE]]

NoWindow == [id |-> 0, current_state |-> NoTensor, hE_new |-> NoTensor]

\* next_window[name].detach().numpy() (lines 170, 298).
WindowOutput(nw, name) == [id |-> nw.id, var |-> name]

\* model.output_names[0] (lines 165, 218).
OutputName0 == "bold"

EmptyLists == [name \in Names |-> <<>>]

NoLoss == [sim |-> 0, ts |-> <<0, 0>>, p |-> [k \in StateDictKeys |-> 0]]
NoSched == [total_steps |-> 0, hyper_last_epoch |-> 0, model_last_epoch |-> 0]

IsPrefix(s, t) == Len(s) <= Len(t) /\ \A i \in 1..Len(s) : s[i] = t[i]

\* --------------------------------------------------------- construction
\* No FC correlation computed yet.
NoFc == [set |-> FALSE, sim |-> <<>>, emp |-> 0, val |-> 0]

\* No call of method_arg_type_check is under way.
NoError == [raised |-> FALSE, arg |-> "", expected |-> "", actual |-> ""]
ArgCheckIdle ==
    /\ ac_sig = <<>> /\ ac_passed = [k \in {} |-> ""]
    /\ ac_pc = "ac_off" /\ ac_idx = 0 /\ ac_err = NoError

\* The session right after __init__ (lines 51-64), nothing called yet; u is
\* None until a call sets it.
SessionFresh ==
    /\ params = [k \in StateDictKeys |-> 0]
    /\ u = 0
    /\ lastRec = [set |-> FALSE, names |-> {}, data |-> EmptyLists]
    /\ trainingStats = [loss |-> <<>>, hist |-> [k \in {} |-> <<>>],
                        weights |-> [set |-> FALSE, val |-> <<>>],
                        leadfield |-> [set |-> FALSE, val |-> <<>>]]
    /\ epoch_min = 0 /\ r_lb = 0 /\ lr_scheduler = FALSE /\ base_window_num = 0
    /\ pc = "idle" /\ i_epoch = 0 /\ rec_idx = 0 /\ win_idx = 0
    /\ X = NoTensor /\ hE = NoTensor /\ external = NoExternal
    /\ next_window = NoWindow /\ loss = NoLoss /\ grad = {}
    /\ windListDict = [bound |-> FALSE, lists |-> EmptyLists]
    /\ loss_his = <<>> /\ fit_param = [k \in {} |-> <<>>]
    /\ fit_sc = <<>> /\ fit_lm = <<>>
    /\ sched = NoSched /\ fc_cor = NoFc
    /\ fwd_log = <<>> /\ ops = <<>> /\ stop_seen = FALSE
    /\ trained = FALSE /\ evaluated = FALSE /\ err = ""

\* Model_fitting.__init__ (lines 51-64).
Init ==
    /\ num_epoches \in 0..MaxEpochs
    /\ num_windows \in 1..MaxWindows
    /\ num_recordings \in 1..MaxRecordings
    /\ model \in [use_fit_gains : BOOLEAN, use_fit_lfm : BOOLEAN,
                  track_params : BOOLEAN, value_is_view : BOOLEAN]
    /\ (~model.track_params => ~model.value_is_view)
    /\ SessionFresh
    /\ ArgCheckIdle

\* ------------------------------------------------------------ train: setup
\* Mutant of ExcludeParam: both weights are left out whatever the flags say.
ExcludeParam_always(m) == {"gains_con", "lm"}

\* exclude_param (lines 104-112).
ExcludeParam(m) ==
    (IF m.use_fit_gains THEN {"gains_con"} ELSE {})
        \cup (IF m.use_fit_lfm THEN {"lm"} ELSE {})

\* The names whose history train records (lines 115-122).
RecordedNames(m) ==
    IF m.track_params THEN TrackedNames ELSE StateDictKeys \ ExcludeParam(m)

\* var.value() of a tracked parameter (lines 117-118, 194-195): the accessor
\* returns either the parameter's own tensor or a tensor computed from it;
\* which one is a property of the model handed to the session.
ValueIsView(m) == m.value_is_view

\* One history entry (lines 118, 122, 195, 199).  With track_params the entry
\* is var.value().detach().numpy(), which is not copied: detach() and numpy()
\* share the storage of the tensor value() returned, so when value() returns
\* the parameter tensor itself the entry is a view of the live parameter.
\* Without track_params the entry is value.detach().numpy().ravel().copy().
SnapshotEntry(m, p, k) ==
    IF m.track_params
    THEN [view |-> ValueIsView(m), val |-> p[k]]
    ELSE [view |-> FALSE, val |-> p[k]]

\* What a history entry reads as, given the live parameters.
ReadEntry(e, p, k) == IF e.view THEN p[k] ELSE e.val

\* np.array(value) of a history list (line 246): the entries as read now.
Materialise(h, p, k) == [j \in 1..Len(h) |-> ReadEntry(h[j], p, k)]

\* optimizer.step() of one group (lines 178-179).
OptimStep(p, group) ==
    [k \in DOMAIN p |-> IF k \in group THEN p[k] + 1 ELSE p[k]]

TrainPcs == {"epoch", "recording", "window", "forward", "loss", "backward",
             "step", "sched", "snapshot", "handoff", "finish"}
EvalPcs == {"e_window", "e_buffer"}

\* train(...) up to the epoch loop (lines 70-124).  OneCycleLR refuses a
\* total_steps that is not positive (ValueError at lines 88/90).
TrainCall ==
    /\ pc = "idle" /\ ~trained /\ ~evaluated
    /\ \E a_u \in UValues, a_min \in 0..MaxEpochMin, a_rlb \in RlbValues,
          a_sched \in BOOLEAN :
        /\ u' = a_u                                             \* line 79
        /\ epoch_min' = a_min /\ r_lb' = a_rlb /\ lr_scheduler' = a_sched
        /\ IF a_sched /\ num_windows * num_epoches <= 0        \* lines 86-91
           THEN /\ pc' = "error" /\ err' = "ValueError"
                /\ UNCHANGED <<sched, X, hE, fit_sc, fit_lm, fit_param>>
           ELSE /\ pc' = "epoch" /\ err' = ""
                /\ sched' = IF a_sched
                            THEN [total_steps |-> num_windows * num_epoches,
                                  hyper_last_epoch |-> 0,
                                  model_last_epoch |-> 0]
                            ELSE NoSched
                /\ X' = createIC(0)                             \* line 94
                /\ hE' = createDelayIC(0)                       \* line 96
                /\ fit_sc' = IF model.use_fit_gains             \* line 110
                             THEN <<[src |-> "sc", v |-> 0]>> ELSE <<>>
                /\ fit_lm' = IF model.use_fit_lfm               \* line 113
                             THEN <<params["lm"]>> ELSE <<>>
                /\ fit_param' = [k \in RecordedNames(model) |->  \* 115-122
                                    <<SnapshotEntry(model, params, k)>>]
    /\ loss_his' = <<>> /\ loss' = NoLoss                 \* lines 107, 124
    /\ i_epoch' = 0 /\ rec_idx' = 0 /\ win_idx' = 0
    /\ windListDict' = [bound |-> FALSE, lists |-> EmptyLists]
    /\ fwd_log' = <<>> /\ ops' = <<>> /\ stop_seen' = FALSE
    /\ UNCHANGED <<checkVars, fc_cor, selfVars, params, lastRec, trainingStats, base_window_num,
                   external, next_window, grad, trained, evaluated>>

\* LOOP 1/4 (line 127).
EpochLoop ==
    /\ pc = "epoch"
    /\ IF i_epoch < num_epoches
       THEN pc' = "recording" /\ rec_idx' = 0
       ELSE pc' = "finish" /\ UNCHANGED rec_idx
    /\ UNCHANGED <<checkVars, fc_cor, selfVars, argVars, histVars, params, u, lastRec,
                   trainingStats, i_epoch, win_idx, X, hE, external,
                   next_window, loss, grad, windListDict, sched, fwd_log, ops,
                   stop_seen, trained, evaluated, err>>

\* Mutant of RecordingStart: the accumulator is created once and carried over
\* from recording to recording.
RecordingStart_keepLists ==
    /\ pc = "recording" /\ rec_idx < num_recordings
    /\ windListDict' = [bound |-> TRUE, lists |-> windListDict.lists]
    /\ external' = ZeroExternal
    /\ win_idx' = 0
    /\ pc' = "window"
    /\ UNCHANGED <<checkVars, fc_cor, selfVars, argVars, histVars, params, u, lastRec,
                   trainingStats, i_epoch, rec_idx, X, hE, next_window, loss,
                   grad, sched, fwd_log, ops, stop_seen, trained, evaluated,
                   err>>

\* Mutant of RecordingStart: the initial conditions are created again for
\* every recording.
RecordingStart_freshIC ==
    /\ pc = "recording" /\ rec_idx < num_recordings
    /\ windListDict' = [bound |-> TRUE, lists |-> EmptyLists]
    /\ external' = ZeroExternal
    /\ X' = createIC(0) /\ hE' = createDelayIC(0)
    /\ win_idx' = 0
    /\ pc' = "window"
    /\ UNCHANGED <<checkVars, fc_cor, selfVars, argVars, histVars, params, u, lastRec,
                   trainingStats, i_epoch, rec_idx, next_window, loss,
                   grad, sched, fwd_log, ops, stop_seen, trained, evaluated,
                   err>>

\* LOOP 2/4, one more recording (lines 132-143): new accumulator, zero
\* external input.  X and hE are not touched.
RecordingStart ==
    /\ pc = "recording" /\ rec_idx < num_recordings
    /\ windListDict' = [bound |-> TRUE, lists |-> EmptyLists]  \* 135-137
    /\ external' = ZeroExternal                                \* 140-142
    /\ win_idx' = 0
    /\ pc' = "window"
    /\ UNCHANGED <<checkVars, fc_cor, selfVars, argVars, histVars, params, u, lastRec,
                   trainingStats, i_epoch, rec_idx, X, hE, next_window, loss,
                   grad, sched, fwd_log, ops, stop_seen, trained, evaluated,
                   err>>

\* LOOP 2/4 is exhausted (line 132): on to the next epoch.
RecordingsExhausted ==
    /\ pc = "recording" /\ rec_idx = num_recordings
    /\ i_epoch' = i_epoch + 1
    /\ pc' = "epoch"
    /\ UNCHANGED <<checkVars, fc_cor, selfVars, argVars, histVars, params, u, lastRec,
                   trainingStats, rec_idx, win_idx, X, hE, external,
                   next_window, loss, grad, windListDict, sched, fwd_log, ops,
                   stop_seen, trained, evaluated, err>>

\* ----------------------------------------------------------- train: window
\* The steps of one window, in the order of lines 148-204.
WindowOps(sch) ==
    <<"zero_grad_hyper", "zero_grad_model", "forward", "loss", "backward",
      "step_hyper", "step_model">>
    \o (IF sch THEN <<"sched_hyper", "sched_model">> ELSE <<>>)
    \o <<"snapshot">>

\* LOOP 3/4, one more window (lines 145-149): both optimizers drop the
\* gradients accumulated so far.
ZeroGrad ==
    /\ pc = "window" /\ win_idx < num_windows
    /\ grad' = {}
    /\ ops' = <<"zero_grad_hyper", "zero_grad_model">>
    /\ pc' = "forward"
    /\ UNCHANGED <<checkVars, fc_cor, selfVars, argVars, histVars, params, u, lastRec,
                   trainingStats, i_epoch, rec_idx, win_idx, X, hE, external,
                   next_window, loss, windListDict, sched, fwd_log,
                   stop_seen, trained, evaluated, err>>

\* The external input of window w in train (lines 152-155): the running
\* value (zeros since line 140) unless a stimulus was given.
TrainExternal(uu, ext, w) == IF uu # 0 THEN USlice(w) ELSE ext

\* The forward step (lines 152-158).
Forward ==
    /\ pc = "forward"
    /\ external' = TrainExternal(u, external, win_idx)
    /\ next_window' = ModelCall(Len(fwd_log) + 1)
    /\ fwd_log' = Append(fwd_log,
                     [epoch |-> i_epoch, rec |-> rec_idx, win |-> win_idx,
                      ext |-> external', X |-> X, hE |-> hE])
    /\ ops' = Append(ops, "forward")
    /\ pc' = "loss"
    /\ UNCHANGED <<checkVars, fc_cor, selfVars, argVars, histVars, params, u, lastRec,
                   trainingStats, i_epoch, rec_idx, win_idx, X, hE, loss, grad,
                   windListDict, sched, stop_seen, trained, evaluated, err>>

\* self.cost.loss(sim, ts_window, self.model, next_window) (lines 161-166):
\* the cost of this window's output against window win_idx of the recording,
\* read with the model's parameters as they are now.
CostLoss(nw, r, w, p) == [sim |-> nw.id, ts |-> <<r, w>>, p |-> p]

\* Mutant of LossHisAppend: the trace keeps only the latest loss.
LossHisAppend_overwrite(h, l) == <<l>>

\* loss_his.append(loss.detach().numpy()) (line 172).
LossHisAppend(h, l) == Append(h, l)

\* The loss, the output buffers and the loss trace (lines 161-172).
ComputeLoss ==
    /\ pc = "loss"
    /\ loss' = CostLoss(next_window, rec_idx, win_idx, params)
    /\ windListDict' = [windListDict EXCEPT !.lists =
            [name \in Names |->
                Append(windListDict.lists[name], WindowOutput(next_window, name))]]
    /\ loss_his' = LossHisAppend(loss_his, loss')
    /\ ops' = Append(ops, "loss")
    /\ pc' = "backward"
    /\ UNCHANGED <<checkVars, fc_cor, selfVars, argVars, fit_param, fit_sc, fit_lm, params, u,
                   lastRec, trainingStats, i_epoch, rec_idx, win_idx, X, hE,
                   external, next_window, grad, sched, fwd_log, stop_seen,
                   trained, evaluated, err>>

\* loss.backward(retain_graph=True) (line 175): gradients accumulate.
Backward ==
    /\ pc = "backward"
    /\ grad' = grad \cup {loss.sim}
    /\ ops' = Append(ops, "backward")
    /\ pc' = "step"
    /\ UNCHANGED <<checkVars, fc_cor, selfVars, argVars, histVars, params, u, lastRec,
                   trainingStats, i_epoch, rec_idx, win_idx, X, hE, external,
                   next_window, loss, windListDict, sched, fwd_log,
                   stop_seen, trained, evaluated, err>>

\* Mutant of AfterOptimizerStep: the schedulers are stepped whatever
\* lr_scheduler says.
AfterOptimizerStep_always(sch) == "sched"

\* Where the window goes after the optimizer steps (line 181).
AfterOptimizerStep(sch) == IF sch THEN "sched" ELSE "snapshot"

\* hyperparameter_optimizer.step(); modelparameter_optimizer.step()
\* (lines 178-179).
OptimizerStep ==
    /\ pc = "step"
    /\ params' = OptimStep(OptimStep(params, HyperGroup(model)), ModelGroup(model))
    /\ ops' = ops \o <<"step_hyper", "step_model">>
    /\ pc' = AfterOptimizerStep(lr_scheduler)
    /\ UNCHANGED <<checkVars, fc_cor, selfVars, argVars, histVars, u, lastRec, trainingStats,
                   i_epoch, rec_idx, win_idx, X, hE, external, next_window,
                   loss, grad, windListDict, sched, fwd_log, stop_seen,
                   trained, evaluated, err>>

\* hyperparameter_scheduler.step(); modelparameter_scheduler.step()
\* (lines 183-188).  OneCycleLR.step() counts the step and raises ValueError
\* once the count exceeds the total_steps it was built with; the hyper
\* scheduler is stepped first, so it is the one that raises.
SchedulerStep ==
    /\ pc = "sched"
    /\ IF sched.hyper_last_epoch + 1 > sched.total_steps
       THEN /\ sched' = [sched EXCEPT !.hyper_last_epoch = @ + 1]
            /\ ops' = Append(ops, "sched_hyper")
            /\ pc' = "error" /\ err' = "ValueError"
       ELSE /\ sched' = [sched EXCEPT !.hyper_last_epoch = @ + 1,
                                      !.model_last_epoch = @ + 1]
            /\ ops' = ops \o <<"sched_hyper", "sched_model">>
            /\ pc' = "snapshot" /\ UNCHANGED err
    /\ UNCHANGED <<checkVars, fc_cor, selfVars, argVars, histVars, params, u, lastRec,
                   trainingStats, i_epoch, rec_idx, win_idx, X, hE, external,
                   next_window, loss, grad, windListDict, fwd_log, stop_seen,
                   trained, evaluated>>

\* Mutant of LeadfieldAppend: the lead-field history is not extended.
LeadfieldAppend_skip(h, m, p) == h

\* fit_lm.append(self.model.lm.detach().numpy().ravel().copy()) (203-204).
LeadfieldAppend(h, m, p) == IF m.use_fit_lfm THEN Append(h, p["lm"]) ELSE h

\* The parameter snapshot after the update (lines 192-204).
Snapshot ==
    /\ pc = "snapshot"
    /\ fit_param' = [k \in DOMAIN fit_param |->
                        Append(fit_param[k], SnapshotEntry(model, params, k))]
    /\ fit_sc' = IF model.use_fit_gains
                 THEN Append(fit_sc, [src |-> "sc_fitted", v |-> params["gains_con"]])
                 ELSE fit_sc
    /\ fit_lm' = LeadfieldAppend(fit_lm, model, params)
    /\ ops' = Append(ops, "snapshot")
    /\ pc' = "handoff"
    /\ UNCHANGED <<checkVars, fc_cor, selfVars, argVars, loss_his, params, u, lastRec,
                   trainingStats, i_epoch, rec_idx, win_idx, X, hE, external,
                   next_window, loss, grad, windListDict, sched, fwd_log,
                   stop_seen, trained, evaluated, err>>

\* Mutant of NextState: the output is handed on without being detached.
NextState_attached(t) == t

\* torch.tensor(t.detach().numpy(), dtype=torch.float32) of the model's
\* output, the state of the next window (lines 208-209, 302-303).
NextState(t) == Detach(t)

\* The state hand-off to the next window (lines 208-209).
StateHandoff ==
    /\ pc = "handoff"
    /\ X' = NextState(next_window.current_state)
    /\ hE' = NextState(next_window.hE_new)
    /\ win_idx' = win_idx + 1
    /\ pc' = "window"
    /\ UNCHANGED <<checkVars, fc_cor, selfVars, argVars, histVars, params, u, lastRec,
                   trainingStats, i_epoch, rec_idx, external, next_window,
                   loss, grad, windListDict, sched, fwd_log, ops, stop_seen,
                   trained, evaluated, err>>

\* ------------------------------------------------- train: end of recording
\* The early-stop condition (line 232).
EarlyStop(i, emin, fc, rlb) == i > emin /\ fc > rlb

\* The FC correlation printed at line 223 and tested at line 232: value fc,
\* computed from the concatenated first output of the accumulator (lines
\* 216-219) and from the empirical recording r (lines 211-212).
FCCor(wl, r, fc) ==
    [set |-> TRUE, sim |-> wl.lists[OutputName0], emp |-> r, val |-> fc]

\* After LOOP 3/4 (lines 145, 211-233): the buffers are concatenated in
\* place, the loss trace is published, and the early-stop condition is
\* tested on this recording's FC correlation fc.  The break leaves LOOP 2/4
\* only: the epoch loop goes on with its next iteration.
RecordingEnd ==
    /\ pc = "window" /\ win_idx = num_windows
    /\ trainingStats' = [trainingStats EXCEPT !.loss = loss_his]   \* line 230
    /\ \E fc \in CorrValues :
        /\ fc_cor' = FCCor(windListDict, rec_idx, fc)              \* 211-223
        /\ IF EarlyStop(i_epoch, epoch_min, fc, r_lb)              \* 232-233
           THEN /\ stop_seen' = TRUE
                /\ i_epoch' = i_epoch + 1
                /\ pc' = "epoch"
                /\ UNCHANGED rec_idx
           ELSE /\ rec_idx' = rec_idx + 1
                /\ pc' = "recording"
                /\ UNCHANGED <<stop_seen, i_epoch>>
    /\ UNCHANGED <<checkVars, selfVars, argVars, histVars, params, u, lastRec,
                   win_idx, X, hE, external, next_window, loss, grad,
                   windListDict, sched, fwd_log, ops, trained, evaluated, err>>

\* After LOOP 1/4 (lines 236-246).  windListDict is bound only inside the
\* recording loop: when no recording was started, line 238 raises NameError
\* after line 236 has set lastRec to an empty dict.
TrainFinish ==
    /\ pc = "finish"
    /\ IF ~windListDict.bound
       THEN /\ lastRec' = [set |-> TRUE, names |-> {}, data |-> EmptyLists]
            /\ pc' = "error" /\ err' = "NameError"
            /\ UNCHANGED <<trainingStats, trained>>
       ELSE /\ lastRec' = [set |-> TRUE, names |-> Names,
                           data |-> windListDict.lists]
            /\ trainingStats' =
                 [trainingStats EXCEPT
                    !.weights = IF model.use_fit_gains
                                THEN [set |-> TRUE, val |-> fit_sc] ELSE @,
                    !.leadfield = IF model.use_fit_lfm
                                  THEN [set |-> TRUE, val |-> fit_lm] ELSE @,
                    !.hist = [k \in DOMAIN fit_param |->
                                 Materialise(fit_param[k], params, k)]]
            /\ pc' = "idle" /\ trained' = TRUE
            /\ UNCHANGED err
    /\ UNCHANGED <<checkVars, fc_cor, selfVars, argVars, histVars, params, u, i_epoch, rec_idx,
                   win_idx, X, hE, external, next_window, loss, grad,
                   windListDict, sched, fwd_log, ops, stop_seen, evaluated>>

\* ---------------------------------------------------------------- evaluate
\* evaluate(base_window_num, u) up to its loop (lines 259-282).
EvaluateCall ==
    /\ pc = "idle" /\ ~evaluated
    /\ \E a_n \in 0..MaxBaseWindows, a_u \in UValues :
        /\ base_window_num' = a_n
        /\ u' = a_u                                            \* line 261
    /\ X' = createIC(1)                                        \* line 264
    /\ hE' = createDelayIC(1)                                  \* line 266
    /\ windListDict' = [bound |-> TRUE, lists |-> EmptyLists]  \* 275-277
    /\ win_idx' = 0
    /\ fwd_log' = <<>> /\ ops' = <<>>
    /\ pc' = "e_window"
    /\ UNCHANGED <<checkVars, fc_cor, selfVars, epoch_min, r_lb, lr_scheduler, histVars, params,
                   lastRec, trainingStats, i_epoch, rec_idx, external,
                   next_window, loss, grad, sched, stop_seen, trained,
                   evaluated, err>>

\* Mutant of EvalExternal: the stimulus is not shifted past the burn-in.
EvalExternal_noshift(uu, n, w) ==
    IF w < n \/ uu = 0 THEN ZeroExternal ELSE USlice(w)

\* The slice of u_hat for window w (lines 279-290): zeros over the burn-in
\* windows, self.u (broadcast when it is the int 0) afterwards.
EvalExternal(uu, n, w) ==
    IF w < n \/ uu = 0 THEN ZeroExternal ELSE USlice(w - n)

\* LOOP 1/2, the forward step (lines 285-293).
EvalForward ==
    /\ pc = "e_window" /\ win_idx < num_windows + base_window_num
    /\ external' = EvalExternal(u, base_window_num, win_idx)
    /\ next_window' = ModelCall(Len(fwd_log) + 1)
    /\ fwd_log' = Append(fwd_log,
                     [epoch |-> 0, rec |-> 0, win |-> win_idx,
                      ext |-> external', X |-> X, hE |-> hE])
    /\ pc' = "e_buffer"
    /\ UNCHANGED <<checkVars, fc_cor, selfVars, argVars, histVars, params, u, lastRec,
                   trainingStats, i_epoch, rec_idx, win_idx, X, hE, loss, grad,
                   windListDict, sched, ops, stop_seen, trained, evaluated,
                   err>>

\* Mutant of IsBuffered: one window too many is discarded.
IsBuffered_late(w, n) == w > n

\* Whether window w is kept (line 296).
IsBuffered(w, n) == w > n - 1

\* The rest of the window with the parameters left as np (lines 296-303):
\* the outputs are buffered past the burn-in, the state is handed on.
EvalBufferWith(np) ==
    /\ pc = "e_buffer"
    /\ windListDict' =
         IF IsBuffered(win_idx, base_window_num)
         THEN [windListDict EXCEPT !.lists =
                 [name \in Names |->
                     Append(windListDict.lists[name],
                            WindowOutput(next_window, name))]]
         ELSE windListDict
    /\ X' = NextState(next_window.current_state)
    /\ hE' = NextState(next_window.hE_new)
    /\ win_idx' = win_idx + 1
    /\ params' = np
    /\ pc' = "e_window"
    /\ UNCHANGED <<checkVars, fc_cor, selfVars, argVars, histVars, u, lastRec, trainingStats,
                   i_epoch, rec_idx, external, next_window, loss, grad, sched,
                   fwd_log, ops, stop_seen, trained, evaluated, err,
          ac_sig, ac_passed, ac_pc, ac_idx, ac_err>>

\* Mutant of EvalBuffer: evaluate takes an optimizer step in every window.
EvalBuffer_training == EvalBufferWith(OptimStep(params, ModelGroup(model)))

\* Lines 296-303: evaluate has no optimizer; the parameters stay.
EvalBuffer == EvalBufferWith(params)

\* After LOOP 1/2 (lines 305-322): concatenate and publish lastRec.
EvalFinish ==
    /\ pc = "e_window" /\ win_idx = num_windows + base_window_num
    /\ lastRec' = [set |-> TRUE, names |-> Names, data |-> windListDict.lists]
    /\ pc' = "idle" /\ evaluated' = TRUE
    /\ UNCHANGED <<checkVars, fc_cor, selfVars, argVars, histVars, params, u, trainingStats,
                   i_epoch, rec_idx, win_idx, X, hE, external, next_window,
                   loss, grad, windListDict, sched, fwd_log, ops, stop_seen,
                   trained, err>>

\* ------------------------------------------------------------ specification
\* A session: at most one train, then at most one evaluate.
Next ==
    \/ TrainCall \/ EpochLoop \/ RecordingStart \/ RecordingsExhausted
    \/ ZeroGrad \/ Forward \/ ComputeLoss \/ Backward \/ OptimizerStep
    \/ SchedulerStep \/ Snapshot \/ StateHandoff \/ RecordingEnd
    \/ TrainFinish
    \/ EvaluateCall \/ EvalForward \/ EvalBuffer \/ EvalFinish

Spec == Init /\ [][Next]_vars

\* ------------------------------------------------------------------ claims
\* The log of model calls is the one of train (not yet replaced by evaluate's).
TrainLog == ~evaluated /\ pc \notin EvalPcs
TrainReturned == pc = "idle" /\ trained
Fitted == HyperGroup(model) \cup ModelGroup(model)

\* C1: when train returns without the early-stop condition ever having been
\* true, trainingStats.loss has num_epoches * num_windows * num_recordings
\* entries, entry n being the loss of the n-th window in processing order
\* (epoch-major, then recording, then window); and at every step of the run
\* the loss trace, local and published, only grows by appending.
C1_LossTraceComplete ==
    /\ [](TrainReturned /\ ~stop_seen =>
            /\ Len(trainingStats.loss)
                 = num_epoches * num_windows * num_recordings
            /\ \A n \in 1..Len(trainingStats.loss) :
                 /\ trainingStats.loss[n].sim = n
                 /\ trainingStats.loss[n].ts =
                      <<((n - 1) \div num_windows) % num_recordings,
                        (n - 1) % num_windows>>)
    /\ [][/\ IsPrefix(loss_his, loss_his')
          /\ IsPrefix(trainingStats.loss, trainingStats.loss')]_vars

C1_Witness ==
    /\ TrainReturned /\ ~stop_seen
    /\ num_epoches >= 2 /\ num_recordings >= 2 /\ num_windows >= 2
    /\ Len(trainingStats.loss) >= 8

\* C2: with epoch_min = 0 and r_lb = -1 (below every FC correlation), train
\* stops after one recording of the first epoch: exactly num_windows windows
\* are processed in the whole run.
C2_StopsAfterOneRecording ==
    (TrainReturned /\ epoch_min = 0 /\ r_lb = -1)
        => Len(trainingStats.loss) = num_windows

\* C3: once the early-stop condition has held at the end of a recording, no
\* further window is processed and no further update is applied in the run;
\* and a run in which it never held ends only after all num_epoches epochs.
C3_StopEndsRun ==
    /\ stop_seen => pc \notin {"forward", "loss", "backward", "step", "sched",
                               "snapshot", "handoff"}
    /\ (pc = "finish" /\ ~stop_seen) => i_epoch = num_epoches

\* C4 as stated: the first window of every recording of every epoch is fed
\* the freshly created initial state and delay-history.
C4_FreshStatePerRecording ==
    TrainLog =>
        \A n \in 1..Len(fwd_log) :
            fwd_log[n].win = 0 =>
                /\ fwd_log[n].X = createIC(0)
                /\ fwd_log[n].hE = createDelayIC(0)

\* C4 amended: train creates the state and the delay-history from the model's
\* initial conditions once, before the first epoch.  Only the first window of
\* the first recording of the first epoch is fed them; the first window of
\* every later recording, in the same or a later epoch, is fed the detached
\* output of the last model call before it.
C4_StateCreatedOncePerTrain ==
    TrainLog =>
        \A n \in 1..Len(fwd_log) :
            fwd_log[n].win = 0 =>
                IF n = 1
                THEN /\ fwd_log[n].X = createIC(0)
                     /\ fwd_log[n].hE = createDelayIC(0)
                ELSE /\ fwd_log[n].X = Detach(ModelCall(n - 1).current_state)
                     /\ fwd_log[n].hE = Detach(ModelCall(n - 1).hE_new)

C4_Witness ==
    /\ TrainLog
    /\ \E n \in 2..Len(fwd_log) :
         fwd_log[n].win = 0 /\ fwd_log[n].epoch = 0 /\ fwd_log[n].rec = 1
    /\ \E n \in 2..Len(fwd_log) :
         fwd_log[n].win = 0 /\ fwd_log[n].epoch = 1 /\ fwd_log[n].rec = 0

\* C5: in train and in evaluate the windows of a recording are processed in
\* index order 0, 1, ..., and the state and delay-history fed to the model
\* for window i+1 are the detached current_state and the detached new
\* delay-history returned by the call for window i, the call just before.
C5_SequentialHandoff ==
    \A n \in 1..Len(fwd_log) :
        /\ n = 1 => fwd_log[n].win = 0
        /\ n > 1 =>
            \/ /\ fwd_log[n].win = fwd_log[n - 1].win + 1
               /\ fwd_log[n].rec = fwd_log[n - 1].rec
               /\ fwd_log[n].epoch = fwd_log[n - 1].epoch
            \/ /\ fwd_log[n].win = 0
               /\ fwd_log[n - 1].win = num_windows - 1
               /\ TrainLog
        /\ fwd_log[n].win > 0 =>
            /\ fwd_log[n].X = Detach(ModelCall(n - 1).current_state)
            /\ fwd_log[n].hE = Detach(ModelCall(n - 1).hE_new)
            /\ ~fwd_log[n].X.graph /\ ~fwd_log[n].hE.graph

C5_Witness ==
    /\ pc = "idle" /\ trained /\ evaluated
    /\ Len(trainingStats.loss) >= 2 /\ num_windows >= 2
    /\ Len(fwd_log) >= 3

\* C6: when train returns, every published history (each recorded
\* parameter, the weights when use_fit_gains, the leadfield when
\* use_fit_lfm) has one entry more than windows were processed, which is
\* one more than the loss trace has.
C6_HistoryLengths ==
    TrainReturned =>
        LET n == Len(trainingStats.loss) IN
        /\ ~evaluated => Len(fwd_log) = n
        /\ DOMAIN trainingStats.hist = RecordedNames(model)
        /\ \A k \in DOMAIN trainingStats.hist :
             Len(trainingStats.hist[k]) = n + 1
        /\ model.use_fit_gains =>
             trainingStats.weights.set /\ Len(trainingStats.weights.val) = n + 1
        /\ model.use_fit_lfm =>
             /\ trainingStats.leadfield.set
             /\ Len(trainingStats.leadfield.val) = n + 1

C6_Witness ==
    /\ TrainReturned /\ ~evaluated
    /\ model.use_fit_gains /\ model.use_fit_lfm
    /\ Len(trainingStats.loss) >= 4 /\ stop_seen

\* C7: evaluate(base_window_num = N) makes num_windows + N model calls in
\* window order, and lastRec holds for every variable the outputs of the
\* calls for windows N .. N + num_windows - 1, in order, and nothing else.
C7_BurnInDiscarded ==
    (pc = "idle" /\ evaluated) =>
        /\ Len(fwd_log) = num_windows + base_window_num
        /\ \A n \in 1..Len(fwd_log) : fwd_log[n].win = n - 1
        /\ lastRec.set /\ lastRec.names = Names
        /\ \A name \in Names :
             lastRec.data[name] =
                 [j \in 1..num_windows |->
                     [id |-> base_window_num + j, var |-> name]]

C7_Witness ==
    /\ pc = "idle" /\ evaluated
    /\ base_window_num >= 1 /\ num_windows >= 2

EvalStep == pc \in EvalPcs \/ pc' \in EvalPcs

\* C8: no step of evaluate changes the model's parameters, the published
\* training statistics, the local histories or the session's configuration.
C8_EvaluateReadOnly ==
    [][EvalStep =>
         /\ params' = params
         /\ trainingStats' = trainingStats
         /\ histVars' = histVars
         /\ selfVars' = selfVars]_vars

C8_Witness ==
    /\ pc = "idle" /\ evaluated /\ trained
    /\ Len(trainingStats.loss) >= 2 /\ params["g"] >= 2

\* C9: an entry of a parameter history always reads as the value the
\* parameter had when the entry was appended, with and without track_params.
C9_HistoryNeverRewritten ==
    \A k \in DOMAIN fit_param :
        \A j \in 1..Len(fit_param[k]) :
            ReadEntry(fit_param[k][j], params, k) = fit_param[k][j].val

\* C10: the steps of a window are taken in the order zero_grad (both
\* groups), forward, loss, backward, optimizer step (hyper, then model),
\* scheduler step (both, only with lr_scheduler), snapshot, each once; the
\* optimizer steps on this window's gradient alone; and the n-th loss of the
\* trace was computed with the parameters left by n-1 updates.
C10_WindowStepOrder ==
    LET fitted == Fitted
        expected == WindowOps(lr_scheduler) IN
    /\ IsPrefix(ops, expected)
    /\ pc = "handoff" => ops = expected
    /\ pc = "step" => grad = {loss.sim}
    /\ \A n \in 1..Len(loss_his) : \A k \in StateDictKeys :
         loss_his[n].p[k] = IF k \in fitted THEN n - 1 ELSE 0
    /\ pc = "handoff" =>
         \A k \in StateDictKeys :
             params[k] = IF k \in fitted THEN Len(loss_his) ELSE 0

C10_Witness ==
    /\ pc = "handoff" /\ lr_scheduler /\ Len(loss_his) >= 2
    /\ ops = WindowOps(TRUE)

\* C11 as stated: with track_params the published histories are those of the
\* named parameters; without, those of every state-dict parameter except
\* gains_con and lm, whatever the fit flags; weights and leadfield exist
\* exactly when use_fit_gains and use_fit_lfm are enabled.
C11_WeightsAlwaysExcluded ==
    TrainReturned =>
        /\ DOMAIN trainingStats.hist =
             IF model.track_params THEN TrackedNames
             ELSE StateDictKeys \ {"gains_con", "lm"}
        /\ trainingStats.weights.set <=> model.use_fit_gains
        /\ trainingStats.leadfield.set <=> model.use_fit_lfm

\* C11 amended: without track_params, gains_con is left out of the
\* histories only when use_fit_gains is enabled and lm only when use_fit_lfm
\* is enabled; a weight of the state dict whose flag is disabled is recorded
\* like any other parameter.
C11_WeightsExcludedWhenFitted ==
    TrainReturned =>
        /\ DOMAIN trainingStats.hist =
             IF model.track_params THEN TrackedNames
             ELSE {k \in StateDictKeys :
                     /\ ~(k = "gains_con" /\ model.use_fit_gains)
                     /\ ~(k = "lm" /\ model.use_fit_lfm)}
        /\ trainingStats.weights.set <=> model.use_fit_gains
        /\ trainingStats.leadfield.set <=> model.use_fit_lfm

C11_Witness ==
    /\ TrainReturned /\ ~model.track_params
    /\ ~model.use_fit_gains /\ model.use_fit_lfm
    /\ "gains_con" \in DOMAIN trainingStats.hist
    /\ "lm" \notin DOMAIN trainingStats.hist
    /\ trainingStats.leadfield.set /\ ~trainingStats.weights.set

\* The log of model calls is the one of evaluate.
EvalLog == evaluated \/ pc \in EvalPcs

\* C12: in train the input of window w is all zeros when no stimulus was
\* given and the stimulus slice of window w otherwise; in evaluate with
\* base_window_num = N the input of a burn-in window w < N is all zeros and
\* that of window w >= N is the stimulus slice of window w - N, all zeros
\* when no stimulus was given.
C12_ExternalInput ==
    \A n \in 1..Len(fwd_log) :
        LET w == fwd_log[n].win IN
        /\ TrainLog =>
             fwd_log[n].ext = IF u = 0 THEN [kind |-> "zeros", at |-> 0]
                              ELSE [kind |-> "u", at |-> w]
        /\ EvalLog =>
             fwd_log[n].ext =
                 IF w < base_window_num \/ u = 0
                 THEN [kind |-> "zeros", at |-> 0]
                 ELSE [kind |-> "u", at |-> w - base_window_num]

C12_Witness ==
    /\ pc = "idle" /\ evaluated /\ u = 1
    /\ base_window_num >= 1 /\ num_windows >= 2
    /\ fwd_log[1].ext.kind = "zeros"
    /\ fwd_log[Len(fwd_log)].ext = [kind |-> "u", at |-> num_windows - 1]

\* C13: when train returns, lastRec holds for every state and output
\* variable the outputs of the num_windows windows of the recording
\* processed last, in window order, each once, and no window of an earlier
\* recording or epoch.
C13_LastRecIsLastRecording ==
    (TrainReturned /\ ~evaluated) =>
        LET base == Len(fwd_log) - num_windows IN
        /\ lastRec.set /\ lastRec.names = Names
        /\ base >= 0
        /\ \A j \in 1..num_windows :
             /\ fwd_log[base + j].win = j - 1
             /\ fwd_log[base + j].rec = fwd_log[Len(fwd_log)].rec
             /\ fwd_log[base + j].epoch = fwd_log[Len(fwd_log)].epoch
        /\ \A name \in Names :
             lastRec.data[name] =
                 [j \in 1..num_windows |-> [id |-> base + j, var |-> name]]

C13_Witness ==
    /\ TrainReturned /\ ~evaluated
    /\ num_windows >= 2 /\ num_recordings >= 2 /\ num_epoches >= 2
    /\ Len(fwd_log) >= 3 * num_windows

\* ------------------------------------------------- method_arg_type_check
\* Parameter names and annotation types tried.  "arg_name" is a name one of
\* the function's own local variables has too.
ParamNames == {"self", "node_size", "arg_name"}
Types == {"int", "str"}

\* inspect.signature(method_obj).parameters (lines 9-10): at most MaxParams
\* parameters of distinct names, each annotated with a type.
Signatures ==
    {s \in UNION {[1..n -> [name : ParamNames, annot : Types]] : n \in 0..MaxParams} :
        \A i, j \in 1..Len(s) : i # j => s[i].name # s[j].name}

SigNames(s) == {s[i].name : i \in 1..Len(s)}

\* What the call of the method passes: for self the instance, for any other
\* parameter a value of some type, or nothing (the default is used).
PassedArgs(s) ==
    {f \in [SigNames(s) -> Types \cup {"absent", "object"}] :
        \A k \in SigNames(s) : (f[k] = "object") <=> (k = "self")}

\* locals() inside method_arg_type_check during its loop (lines 13-15), as
\* the type name of each value: the function's parameter and the variables
\* it has assigned so far.  The values the checked call passes are not
\* among them; method_obj is all the function is given.
CheckerLocals ==
    [method_obj |-> "function", args_signature |-> "Signature",
     expected_types |-> "dict", arg_name |-> "str", arg_type |-> "type"]

\* isinstance(value, t) for a value of type ty (line 14).
IsInstance(ty, t) == ty = t

\* The variables of the session are not touched by the function.
SessionUnchanged ==
    UNCHANGED <<fc_cor, selfVars, argVars, histVars, params, u, lastRec,
                trainingStats, pc, i_epoch, rec_idx, win_idx, X, hE, external,
                next_window, loss, grad, windListDict, sched, fwd_log, ops,
                stop_seen, trained, evaluated, err>>

\* method_arg_type_check(method_obj), lines 9-10.
ArgCheckCall ==
    /\ ac_pc = "ac_idle"
    /\ ac_pc' = "ac_loop" /\ ac_idx' = 1
    /\ UNCHANGED <<ac_sig, ac_passed, ac_err>>
    /\ SessionUnchanged

\* One iteration of the loop of lines 12-17.
ArgCheckParam ==
    /\ ac_pc = "ac_loop" /\ ac_idx <= Len(ac_sig)
    /\ LET arg_name == ac_sig[ac_idx].name
           arg_type == ac_sig[ac_idx].annot IN
       IF /\ arg_name # "self"                                  \* line 13
          /\ arg_name \in DOMAIN CheckerLocals
          /\ ~IsInstance(CheckerLocals[arg_name], arg_type)     \* line 14
       THEN /\ ac_err' = [raised |-> TRUE, arg |-> arg_name,    \* 15-17
                          expected |-> arg_type,
                          actual |-> CheckerLocals[arg_name]]
            /\ ac_pc' = "ac_raised"
            /\ UNCHANGED ac_idx
       ELSE /\ ac_idx' = ac_idx + 1
            /\ UNCHANGED <<ac_pc, ac_err>>
    /\ UNCHANGED <<ac_sig, ac_passed>>
    /\ SessionUnchanged

\* The loop of line 12 is exhausted: the function returns None.
ArgCheckReturn ==
    /\ ac_pc = "ac_loop" /\ ac_idx > Len(ac_sig)
    /\ ac_pc' = "ac_done"
    /\ UNCHANGED <<ac_sig, ac_passed, ac_idx, ac_err>>
    /\ SessionUnchanged

\* A method, a call of it, and method_arg_type_check about to run on it.
ArgCheckInit ==
    /\ num_epoches = 0 /\ num_windows = 1 /\ num_recordings = 1
    /\ model = [use_fit_gains |-> FALSE, use_fit_lfm |-> FALSE,
                track_params |-> FALSE, value_is_view |-> FALSE]
    /\ SessionFresh
    /\ ac_sig \in Signatures
    /\ ac_passed \in PassedArgs(ac_sig)
    /\ ac_pc = "ac_idle" /\ ac_idx = 0 /\ ac_err = NoError

ArgCheckNext == ArgCheckCall \/ ArgCheckParam \/ ArgCheckReturn

SpecArgCheck == ArgCheckInit /\ [][ArgCheckNext]_vars

\* The parameters for which the call passes a value of another type than
\* the annotation.
Mismatched ==
    {i \in 1..Len(ac_sig) :
        /\ ac_sig[i].name # "self"
        /\ ac_passed[ac_sig[i].name] \notin {"absent", ac_sig[i].annot}}

\* C14: method_arg_type_check ends in a ValueError naming the argument, its
\* expected type and its actual type when the call passes an argument whose
\* type does not match the annotation, and raises nothing when every passed
\* argument matches.
C14_MismatchRaises ==
    ac_pc \in {"ac_done", "ac_raised"} =>
        IF Mismatched = {}
        THEN ac_pc = "ac_done" /\ ~ac_err.raised
        ELSE /\ ac_pc = "ac_raised" /\ ac_err.raised
             /\ \E i \in Mismatched :
                  /\ ac_err.arg = ac_sig[i].name
                  /\ ac_err.expected = ac_sig[i].annot
                  /\ ac_err.actual = ac_passed[ac_sig[i].name]

\* C15: with lr_scheduler enabled, the scheduler of neither parameter group
\* is ever stepped more often than the total_steps = num_windows *
\* num_epoches its schedule was built with.
C15_SchedulerWithinSpan ==
    lr_scheduler =>
        /\ sched.hyper_last_epoch <= sched.total_steps
        /\ sched.model_last_epoch <= sched.total_steps

\* The window loop of train (lines 145-209), from the zero_grad of a window to
\* its state hand-off.
WindowLoopPcs == {"window", "forward", "loss", "backward", "step", "sched",
                  "snapshot", "handoff"}

\* C16: in train the early-stop condition is evaluated only at the end of a
\* recording, never between two windows: every recording that is started
\* processes all num_windows windows, so outside the window loop the number of
\* windows processed and the length of the loss trace are multiples of
\* num_windows, the published trainingStats.loss always has such a length, and
\* the FC correlation the decision uses is computed from exactly the
\* num_windows windows of the one recording that just finished.
C16_EarlyStopOnlyAtRecordingEnd ==
    /\ Len(trainingStats.loss) % num_windows = 0
    /\ (TrainLog /\ pc \notin WindowLoopPcs) =>
          /\ Len(fwd_log) % num_windows = 0
          /\ Len(loss_his) % num_windows = 0
    /\ (TrainLog /\ fc_cor.set) =>
          /\ Len(fc_cor.sim) = num_windows
          /\ \A j \in 1..num_windows :
                LET n == fc_cor.sim[j].id IN
                /\ fc_cor.sim[j].var = OutputName0
                /\ n = fc_cor.sim[1].id + j - 1
                /\ n \in 1..Len(fwd_log)
                /\ fwd_log[n].win = j - 1
                /\ fwd_log[n].rec = fc_cor.emp
                /\ fwd_log[n].epoch = fwd_log[fc_cor.sim[1].id].epoch

\* C17: train called with num_epoches = 0 processes no window and returns
\* normally, never ending in an error; what it publishes is an empty loss
\* trace, parameter histories that hold only the initial snapshot, and a
\* lastRec with no trajectory data.
C17_ZeroEpochsReturns ==
    (num_epoches = 0 /\ TrainLog) =>
        /\ pc # "error"
        /\ fwd_log = <<>>
        /\ TrainReturned =>
              /\ trainingStats.loss = <<>>
              /\ DOMAIN trainingStats.hist = RecordedNames(model)
              /\ \A k \in DOMAIN trainingStats.hist :
                    Len(trainingStats.hist[k]) = 1
              /\ lastRec.set /\ lastRec.names = {}

====
